---------------------------- MODULE Spec2Model ----------------------------
(***************************************************************************)
(* text_highlighter (src/text_highlighter/__init__.py): the Python wrapper *)
(* that resolves the label list, the selected label and the colors, hands  *)
(* them to the Streamlit component and returns the component's value.      *)
(*                                                                         *)
(* Python values are represented as follows.                               *)
(*   None / a value v        : <<>> / <<v>>          (None, Some(v))       *)
(*   labels: str or list     : [isStr, val]          (Str(s), List(l))     *)
(*   a list                  : a sequence (1-based; Python index i is i+1) *)
(*   an annotation dict      : a record [start, end, text, tag, color]     *)
(*   an uncaught exception   : the name of its class in err                *)
(***************************************************************************)
EXTENDS Integers, Sequences, FiniteSets, TLC

VARIABLES
    args,       \* the arguments of the latest call to text_highlighter
    err,        \* "none", or the exception class the latest call raised
    sent,       \* None, or Some(keyword arguments the latest call gave _component_func)
    ret,        \* None, or Some(value the latest call returned)
    session,    \* the component instance the frontend holds: [ident, value]
    live,       \* None, or Some(identities of the latest call that rendered)
    sameInputs, \* the latest call had the key, or without one the inputs, of live
    sameSent,   \* the latest call had the key, or without one sent the arguments, of live
    had         \* the component value the frontend held when the latest call was made

vars == <<args, err, sent, ret, session, live, sameInputs, sameSent, had>>

None == <<>>
Some(v) == <<v>>

Str(s) == [isStr |-> TRUE, val |-> s]
List(l) == [isStr |-> FALSE, val |-> l]

Range(s) == {s[i] : i \in 1..Len(s)}
Prefix(s, n) == SubSeq(s, 1, n)

---------------------------------------------------------------------------
(* Bounds of the inputs.                                                   *)

\* longest label list a call passes (longer than the built-in palette)
MaxLabels == 10
\* longest explicit colors list a call passes
MaxColors == 2

---------------------------------------------------------------------------
(* text_highlighter, lines 47-113.                                         *)

\* the default values of the parameters
Defaults ==
    [text |-> "Hello world!", selected_label |-> None, annotations |-> <<>>,
     labels |-> List(<<"PERSON", "ORG">>), colors |-> None, key |-> None,
     show_label_selector |-> TRUE]

\* labels = [labels] if isinstance(labels, str) else labels
NormalizeLabels(labels) == IF labels.isStr THEN <<labels.val>> ELSE labels.val

\* a slip: the last label instead of the first
LastLabel(labels) == labels[Len(labels)]

\* selected_label = labels[0]
FirstLabel(labels) == labels[1]

all_colors ==
    <<"red", "green", "blue", "yellow", "orange", "purple", "pink", "cyan", "gray">>

\* a slip: the cycle starts one color late
ShiftedColors(labels) ==
    [j \in 1..Len(labels) |-> all_colors[(j % Len(all_colors)) + 1]]

\* [all_colors[i % len(all_colors)] for i in range(len(labels))]
DefaultColors(labels) ==
    [j \in 1..Len(labels) |-> all_colors[((j - 1) % Len(all_colors)) + 1]]

\* a slip: default left empty instead of the caller's annotations
ComponentArgsNoDefault(a, labels, colors, selected_label) ==
    [text |-> a.text, annotations |-> a.annotations, colors |-> colors,
     labels |-> labels, key |-> a.key, default |-> <<>>,
     selected_label |-> selected_label,
     show_label_selector |-> a.show_label_selector]

\* a slip: the caller's key is not passed on
ComponentArgsNoKey(a, labels, colors, selected_label) ==
    [text |-> a.text, annotations |-> a.annotations, colors |-> colors,
     labels |-> labels, key |-> None, default |-> a.annotations,
     selected_label |-> selected_label,
     show_label_selector |-> a.show_label_selector]

\* the keyword arguments of the call to _component_func
ComponentArgs(a, labels, colors, selected_label) ==
    [text |-> a.text, annotations |-> a.annotations, colors |-> colors,
     labels |-> labels, key |-> a.key, default |-> a.annotations,
     selected_label |-> selected_label,
     show_label_selector |-> a.show_label_selector]

\* a slip: the value is post-processed, repeated elements dropped
Deduplicated(component_value) ==
    LET F[i \in 0..Len(component_value)] ==
            IF i = 0 THEN <<>>
            ELSE IF component_value[i] \in Range(F[i - 1]) THEN F[i - 1]
            ELSE Append(F[i - 1], component_value[i])
    IN F[Len(component_value)]

\* return component_value
ReturnValue(component_value) == component_value

---------------------------------------------------------------------------
(* The component instance behind _component_func: Streamlit and the        *)
(* frontend.  Its code is not part of the wrapper; it follows the          *)
(* docstring of key (lines 63-66), the comment on default (lines 98-99)    *)
(* and the session rules of the specification.                             *)

\* what the frontend tells two instances apart by: the key, or without one
\* every argument it is sent
ComponentIdentity(kw) ==
    IF kw.key # None
    THEN [key |-> kw.key, args |-> None]
    ELSE [key |-> None,
          args |-> Some([text |-> kw.text, annotations |-> kw.annotations,
                         colors |-> kw.colors, labels |-> kw.labels,
                         selected_label |-> kw.selected_label,
                         show_label_selector |-> kw.show_label_selector])]

\* a render with the identity of the mounted instance keeps its state; any
\* other render mounts a new instance with no value
Mount(kw, s) ==
    IF s.ident = Some(ComponentIdentity(kw))
    THEN s
    ELSE [ident |-> Some(ComponentIdentity(kw)), value |-> None]

\* the component's value: what the frontend last set, or default before that
ComponentValue(kw, s) ==
    IF Mount(kw, s).value = None THEN kw.default ELSE Mount(kw, s).value[1]

\* the identity of a call by its inputs: its key, or without one its full
\* parameter set
InputIdentity(a) ==
    IF a.key # None
    THEN [key |-> a.key, args |-> None]
    ELSE [key |-> None, args |-> Some(a)]

\* the identity of a call by what it sends: its key, or without one the
\* component's arguments (docstring of key)
SentIdentity(a, kw) ==
    IF a.key # None
    THEN [key |-> a.key, args |-> None]
    ELSE [key |-> None,
          args |-> Some([text |-> kw.text, annotations |-> kw.annotations,
                         colors |-> kw.colors, labels |-> kw.labels,
                         selected_label |-> kw.selected_label,
                         show_label_selector |-> kw.show_label_selector])]

---------------------------------------------------------------------------
(* One call, start to finish.                                              *)

Raise(e) ==
    /\ err' = e
    /\ sent' = None
    /\ ret' = None
    /\ sameInputs' = FALSE
    /\ sameSent' = FALSE
    /\ had' = None
    /\ UNCHANGED <<session, live>>

Render(a, kw) ==
    /\ err' = "none"
    /\ sent' = Some(kw)
    /\ ret' = Some(ReturnValue(ComponentValue(kw, session)))
    /\ session' = Mount(kw, session)
    /\ live' = Some([inputs |-> InputIdentity(a), sent |-> SentIdentity(a, kw)])
    /\ sameInputs' = (live # None /\ live[1].inputs = InputIdentity(a))
    /\ sameSent' = (live # None /\ live[1].sent = SentIdentity(a, kw))
    /\ had' = session.value

text_highlighter(a) ==
    LET labels == NormalizeLabels(a.labels) IN
    IF a.selected_label = None /\ Len(labels) = 0
    THEN Raise("IndexError")                                 \* labels[0], line 78
    ELSE
        LET selected_label ==
                IF a.selected_label = None THEN FirstLabel(labels)
                ELSE a.selected_label[1]
        IN
        IF a.colors # None /\ Len(a.colors[1]) # Len(labels)
        THEN Raise("AssertionError")                         \* assert, line 80
        ELSE
            LET colors == IF a.colors # None THEN a.colors[1]
                          ELSE DefaultColors(labels)
            IN Render(a, ComponentArgs(a, labels, colors, selected_label))


\* the development demo, lines 119-136: one call per script run, with the
\* label the selectbox holds
DemoArgs(label) ==
    [text |-> "Hello world! This is a demo. Second line",
     selected_label |-> Some(label),
     annotations |-> <<[start |-> 0, end |-> 5, text |-> "Hello",
                        tag |-> "ORG", color |-> "red"]>>,
     labels |-> Defaults.labels, colors |-> Defaults.colors,
     key |-> Defaults.key, show_label_selector |-> FALSE]

---------------------------------------------------------------------------
(* The calls the Host Application makes.                                   *)

LabelPool ==
    <<"PERSON", "ORG", "LOC", "DATE", "GPE", "TIME", "MONEY", "EVENT",
      "NORP", "FAC", "LAW", "WORK">>

CustomColors == <<"blue", "red", "lime", "teal">>

\* a single string, and every list of up to n labels
LabelInputs(n) == {Str("PERSON")} \cup {List(Prefix(LabelPool, m)) : m \in 0..n}

\* every explicit colors list of up to MaxColors colors
ColorInputs == {Some(Prefix(CustomColors, n)) : n \in 0..MaxColors}

SelectedInputs == {None, Some("ORG"), Some("DATE")}

KeyInputs == {None, Some("a"), Some("b")}

Ann(s, e, x, t, c) == [start |-> s, end |-> e, text |-> x, tag |-> t, color |-> c]

AnnotationInputs ==
    { <<>>,
      <<Ann(0, 2, "hi", "PERSON", "red")>>,
      <<Ann(1, 2, "i", "ORG", "green"), Ann(0, 1, "h", "PERSON", "red")>>,
      <<Ann(0, 2, "hi", "ORG", "red")>>,
      <<Ann(0, 1000, "hi", "ORG", "green")>>,
      <<Ann(0, 2, "hi", "DATE", "red")>> }

\* the annotation sets the frontend emits after an edit: unsorted, with a
\* repeated element, empty
EditSets ==
    { <<Ann(1, 2, "i", "ORG", "green"), Ann(0, 1, "h", "PERSON", "red"),
        Ann(0, 1, "h", "PERSON", "red")>>,
      <<>> }

\* calls that leave the colors out, on every label input
PaletteCalls ==
    { [text |-> "hi", selected_label |-> s, annotations |-> <<>>, labels |-> l,
       colors |-> None, key |-> None, show_label_selector |-> TRUE]
        : s \in SelectedInputs, l \in LabelInputs(MaxLabels) }

\* calls that pass explicit colors, as many as the labels or not
ColorCalls ==
    { [text |-> "hi", selected_label |-> s, annotations |-> <<>>, labels |-> l,
       colors |-> c, key |-> None, show_label_selector |-> TRUE]
        : s \in SelectedInputs, l \in LabelInputs(MaxColors + 1), c \in ColorInputs }

\* calls that vary the annotations and the identity, on the default labels
SessionCalls ==
    { [text |-> "hi", selected_label |-> s, annotations |-> an,
       labels |-> Defaults.labels, colors |-> Defaults.colors, key |-> k,
       show_label_selector |-> Defaults.show_label_selector]
        : s \in {None, Some("ORG")}, an \in AnnotationInputs, k \in KeyInputs }

Calls == PaletteCalls \cup ColorCalls \cup SessionCalls

---------------------------------------------------------------------------
(* Actions.                                                                *)

Init ==
    /\ args = Defaults
    /\ err = "none"
    /\ sent = None
    /\ ret = None
    /\ session = [ident |-> None, value |-> None]
    /\ live = None
    /\ sameInputs = FALSE
    /\ sameSent = FALSE
    /\ had = None

\* the Host Application calls text_highlighter
Call ==
    \E a \in Calls :
        /\ args' = a
        /\ text_highlighter(a)

\* a run of the development demo
Demo ==
    \E label \in {"PERSON", "ORG"} :
        /\ args' = DemoArgs(label)
        /\ text_highlighter(DemoArgs(label))

\* the user edits the highlights: the frontend sets the component's value
\* to the full new annotation set
Edit ==
    /\ session.ident # None
    /\ \E e \in EditSets : session' = [session EXCEPT !.value = Some(e)]
    /\ UNCHANGED <<args, err, sent, ret, live, sameInputs, sameSent, had>>

Next == Call \/ Demo \/ Edit

Spec == Init /\ [][Next]_vars

---------------------------------------------------------------------------
(* Vocabulary of the claims.                                               *)

\* the built-in palette as the specification lists it
builtin ==
    <<"red", "green", "blue", "yellow", "orange", "purple", "pink", "cyan", "gray">>

\* the label sequence in caller order; a single string is a sequence of one
CallerLabels == IF args.labels.isStr THEN <<args.labels.val>> ELSE args.labels.val

\* The wrapper defines no exception class of its own.  Its one deliberate
\* configuration check is the assert of line 80, so the specification's
\* ConfigurationError is read as the AssertionError that assert raises.
ConfigurationError == "AssertionError"

\* no code path raises it; the name stands for the specification's error kind
ValidationError == "ValidationError"

\* the validator's checks of one annotation (specification, 4.2)
TagKnown(an) == an.tag \in Range(CallerLabels)
SpanInRange(an) == 0 <= an.start /\ an.start < an.end /\ an.end <= Len(args.text)

\* the color the resolved palette gives a tag of the label set
PaletteColor(tag) ==
    LET i == CHOOSE j \in 1..Len(CallerLabels) : CallerLabels[j] = tag
    IN IF args.colors = None THEN builtin[((i - 1) % Len(builtin)) + 1]
       ELSE args.colors[1][i]

\* the latest call handed its arguments to the Rendering Surface and returned
Rendered == sent # None /\ ret # None

---------------------------------------------------------------------------
(* C1: with colors omitted, the colors sent to the Rendering Surface are   *)
(* as many as the labels and the i-th (counting from 0) is                 *)
(* builtin[i mod 9]; they depend on the label sequence alone, so two calls *)
(* with the same labels send the same colors whatever was called between.  *)
C1_PaletteCycle ==
    (sent # None /\ args.colors = None) =>
        /\ Len(sent[1].colors) = Len(CallerLabels)
        /\ \A i \in 0..(Len(CallerLabels) - 1) :
               sent[1].colors[i + 1] = builtin[(i % Len(builtin)) + 1]

\* a call with more than nine labels and no colors: the tenth is red again
C1_Witness ==
    /\ sent # None
    /\ args.colors = None
    /\ Len(CallerLabels) > Len(builtin)
    /\ sent[1].colors[Len(builtin) + 1] = "red"

(* C2: a call with explicit colors whose length differs from the labels'   *)
(* fails with ConfigurationError and nothing is sent; with equal lengths   *)
(* it does not fail so and the colors are sent unchanged beside the labels.*)
C2_ColorArity ==
    (args.colors # None) =>
        IF Len(args.colors[1]) # Len(CallerLabels)
        THEN err = ConfigurationError /\ sent = None
        ELSE /\ err # ConfigurationError
             /\ sent # None =>
                    (sent[1].colors = args.colors[1] /\ sent[1].labels = CallerLabels)

(* C3: a call with an annotation whose tag is not a label, or whose        *)
(* offsets break 0 <= start < end <= len(text), fails with ValidationError *)
(* and the annotation set is not sent to the Rendering Surface.            *)
C3_RejectsMalformed ==
    (\E i \in 1..Len(args.annotations) :
        ~TagKnown(args.annotations[i]) \/ ~SpanInRange(args.annotations[i]))
    => (err = ValidationError /\ sent = None)

(* C4: a call with an annotation whose color differs from the color the    *)
(* resolved palette gives its tag fails with ValidationError, so no such   *)
(* annotation is sent or returned.                                         *)
C4_RejectsStaleColor ==
    (\E i \in 1..Len(args.annotations) :
        /\ TagKnown(args.annotations[i])
        /\ args.colors # None => Len(args.colors[1]) = Len(CallerLabels)
        /\ args.annotations[i].color # PaletteColor(args.annotations[i].tag))
    => (err = ValidationError /\ sent = None /\ ret = None)

(* C5: on a fresh session (the first render for its identity, or a         *)
(* session no edit was delivered to yet) with a valid annotation set, the  *)
(* call returns its input annotations, element for element.                *)
C5_RoundTrip ==
    (/\ Rendered
     /\ ~sameSent \/ had = None
     /\ \A i \in 1..Len(args.annotations) :
            TagKnown(args.annotations[i]) /\ SpanInRange(args.annotations[i]))
    => ret = Some(args.annotations)

\* a first call with two valid annotations returned them
C5_Witness ==
    /\ Rendered
    /\ had = None
    /\ Len(args.annotations) = 2
    /\ \A i \in 1..Len(args.annotations) :
           TagKnown(args.annotations[i]) /\ SpanInRange(args.annotations[i])
    /\ ret = Some(args.annotations)

(* C6: without a selected_label and with labels, the selected_label sent   *)
(* is the first label in caller order (the string itself when labels is a  *)
(* string); a selected_label that is given is sent unchanged.              *)
C6_SelectedLabel ==
    sent # None =>
        IF args.selected_label = None
        THEN sent[1].selected_label =
                 (IF args.labels.isStr THEN args.labels.val ELSE args.labels.val[1])
        ELSE sent[1].selected_label = args.selected_label[1]

\* a call with several labels and no selected_label sent the first of them
C6_Witness ==
    /\ sent # None
    /\ args.selected_label = None
    /\ ~args.labels.isStr
    /\ Len(args.labels.val) >= 2
    /\ sent[1].selected_label = "PERSON"

(* C7: a call with no labels and no selected_label fails with              *)
(* ConfigurationError, and no other kind of error, and nothing is sent,    *)
(* with colors left out or given as an empty list.                         *)
C7_EmptyLabels ==
    (Len(CallerLabels) = 0 /\ args.selected_label = None) =>
        (err = ConfigurationError /\ sent = None)

C9_ReturnsLatestEdit ==
    (Rendered /\ sameInputs /\ had # None) => ret = had

\* a re-render of an edited session returned the edit, which has a repeated
\* element and differs from the input
C9_Witness ==
    /\ Rendered
    /\ sameInputs
    /\ had # None
    /\ ret = had
    /\ ret # Some(args.annotations)
    /\ Len(ret[1]) > Cardinality(Range(ret[1]))

(* C10: in every payload sent to the Rendering Surface, selected_label is  *)
(* one of the payload's labels.                                            *)
C10_SelectedIsLabel ==
    sent # None => sent[1].selected_label \in Range(sent[1].labels)

=============================================================================
